---- MODULE Spec2Model ----
(***************************************************************************)
(* Model of src/src/connectors/quasar/quasarConnector.ts: the BscConnector *)
(* adapter between the injected wallet provider (window.QuasarChain) and   *)
(* the web3-react connector interface.                                      *)
(*                                                                         *)
(* One adapter instance, one asynchronous operation in flight at a time.   *)
(* An asynchronous operation runs synchronously up to its next await; the  *)
(* environment (slot changes, provider events, deactivate()) interleaves   *)
(* only while the operation is suspended on a provider promise.            *)
(***************************************************************************)
EXTENDS Integers, Sequences, FiniteSets, Bags, TLC

(***************************************************************************)
(* Bounds                                                                  *)
(***************************************************************************)
\* registrations of one handler on one provider (activate() without deactivate())
MaxReg == 2

(***************************************************************************)
(* JavaScript values that flow through the adapter                         *)
(*   d : 1 when the payload comes inside a {result: ...} wrapper, else 0   *)
(*   t : type of the payload                                               *)
(*   s : payload when t = "str" or "bool";  l : payload when t = "list"    *)
(***************************************************************************)
Val(d, t, s, l) == [d |-> d, t |-> t, s |-> s, l |-> l]
Undef == Val(0, "undef", "", <<>>)
\* the evaluation threw a TypeError (property access on undefined)
JsThrow == Val(0, "throw", "", <<>>)
\* an object-style send that answered with a promise instead of a value
JsPromise == Val(0, "promise", "", <<>>)
\* an optional field left out of a result object
Absent == Val(0, "absent", "", <<>>)
Str(x) == Val(0, "str", x, <<>>)
List(x) == Val(0, "list", "", x)
Bool(b) == Val(0, "bool", IF b THEN "true" ELSE "false", <<>>)
Wrapped(v, n) == [v EXCEPT !.d = n]

\* JavaScript truthiness: objects, arrays and promises are truthy
Truthy(v) ==
    \/ v.d > 0
    \/ v.t \in {"list", "promise"}
    \/ v.t = "str" /\ v.s # ""
    \/ v.t = "bool" /\ v.s = "true"

\* sendReturn.hasOwnProperty('result') ? sendReturn.result : sendReturn
parseSendReturn(sendReturn) ==
    IF sendReturn.d = 0 /\ sendReturn.t = "undef"
    THEN JsThrow
    ELSE IF sendReturn.d > 0
         THEN [sendReturn EXCEPT !.d = @ - 1]
         ELSE sendReturn

\* x[0] taking the last element instead
FirstOf_last(v) ==
    IF v.t = "throw" \/ (v.d = 0 /\ v.t = "undef") THEN JsThrow
    ELSE IF v.d = 0 /\ v.t = "list" /\ Len(v.l) > 0 THEN Str(v.l[Len(v.l)])
    ELSE Undef

\* x[0] for x the value of parseSendReturn(...): throws on undefined, is
\* undefined on an empty array and on an object without a property "0".
\* Account responses are arrays or absent, so strings are not indexed here.
FirstOf(v) ==
    IF v.t = "throw" \/ (v.d = 0 /\ v.t = "undef") THEN JsThrow
    ELSE IF v.d = 0 /\ v.t = "list" /\ Len(v.l) > 0 THEN Str(v.l[1])
    ELSE Undef

\* parseSendReturn(sendReturn).length > 0 (undefined > 0 is false)
NonEmptyLength(v) ==
    IF v.t = "throw" \/ (v.d = 0 /\ v.t = "undef") THEN JsThrow
    ELSE IF v.d > 0 THEN Bool(FALSE)
    ELSE IF v.t = "list" THEN Bool(Len(v.l) > 0)
    ELSE IF v.t = "str" THEN Bool(v.s # "")
    ELSE Bool(FALSE)

(***************************************************************************)
(* The environment: the provider slot and the provider objects             *)
(***************************************************************************)
None == "undefined"
ProviderIds == {"P1", "P2", "P3"}
Slots == ProviderIds \cup {None}

\* capabilities probed by the adapter; they are fixed per provider object
HasOn(p) == p \in {"P1", "P2"}
HasRemoveListener(p) == p \in {"P1", "P3"}
IsMetaMask(p) == p = "P1"
IsDapper(p) == p = "P3"

Events == {"chainChanged", "accountsChanged", "close", "networkChanged"}

AccountLists == {<<>>, <<"0xA">>, <<"0xA", "0xB">>}
ChainIds == {"56", "97"}

\* a response is the bare payload or a wrapper around it
Depths == {0, 1}
\* what a provider may answer to an account request
AccountResponses ==
    {Wrapped(v, n) : v \in {Undef} \cup {List(x) : x \in AccountLists}, n \in Depths}
\* what a provider may answer to a chain-id request
ChainResponses ==
    {Wrapped(v, n) : v \in {Undef} \cup {Str(c) : c \in ChainIds}, n \in Depths}
\* values of the static properties chainId, netVersion, networkVersion,
\* _chainId: a chain id, or undefined when the provider lacks the property
PropVals == {Undef} \cup {Str(c) : c \in ChainIds}

UserRejectedCode == 4001
\* codes a provider promise may reject with: the user's refusal, or another
\* provider error (4100, "unauthorized")
ErrorCodes == {UserRejectedCode, 4100}

VARIABLES
    slot,         \* window.QuasarChain: a provider or None
    listeners,    \* per provider: bag of registered [event, fn]
    autoRefresh,  \* per provider: autoRefreshOnNetworkChange still at its default
    pc,           \* where the operation in flight is suspended, or "idle"
    op,           \* the operation in flight or just finished
    entry,        \* whether the slot was empty when the operation was called
    calls,        \* provider requests attempted by the operation, in order
    result,       \* how the operation that has just finished ended
    obs           \* what the synchronous entry point that has just run did

opVars == <<pc, op, entry, calls, result>>
vars == <<slot, listeners, autoRefresh, pc, op, entry, calls, result, obs>>

(***************************************************************************)
(* Records of what happened                                                *)
(***************************************************************************)
\* one request to the provider: how it ended (kind), the code of its error
\* and the raw value it yielded
Call(req, kind, code, val) == [req |-> req, kind |-> kind, code |-> code, val |-> val]
Attempt(req, kind, code) == Call(req, kind, code, Absent)

NoResult ==
    [op |-> "none", status |-> "none", err |-> "none", code |-> 0,
     provider |-> "absent", val |-> Absent]
Returned(name, provider, val) ==
    [op |-> name, status |-> "ok", err |-> "none", code |-> 0,
     provider |-> provider, val |-> val]
Raised(name, err, code) ==
    [op |-> name, status |-> "error", err |-> err, code |-> code,
     provider |-> "absent", val |-> Absent]
\* an error object of the provider, or a TypeError (code 0), reaching the
\* caller as it is, under neither of the two error classes of the adapter
Propagated(name, code) ==
    Raised(name, "Unclassified", code)

NoObs ==
    [name |-> "none", emitter |-> None, id |-> "", accounts |-> <<>>,
     notes |-> <<>>, removed |-> <<>>, raised |-> FALSE]

\* framework notifications
Update(chainId, account, provider) ==
    [kind |-> "update", chainId |-> chainId, account |-> account, provider |-> provider]
Deactivation ==
    [kind |-> "deactivate", chainId |-> Absent, account |-> Absent, provider |-> "absent"]

Init ==
    /\ slot \in Slots
    /\ listeners = [p \in ProviderIds |-> EmptyBag]
    /\ autoRefresh = [p \in ProviderIds |-> TRUE]
    /\ pc = "idle"
    /\ op = "none"
    /\ entry = "-"
    /\ calls = <<>>
    /\ result = NoResult
    /\ obs = NoObs

(***************************************************************************)
(* Steps shared by the asynchronous operations                             *)
(***************************************************************************)
\* the operation settles its promise: the caller sees result r
Finish(r, cs) ==
    /\ pc' = "idle"
    /\ result' = r
    /\ calls' = cs

\* the operation awaits a provider promise
Suspend(at, cs) ==
    /\ pc' = at
    /\ result' = NoResult
    /\ calls' = cs

\* an operation is called
Start(name) ==
    /\ pc = "idle"
    /\ op' = name
    /\ entry' = IF slot = None THEN "absent" ELSE "present"
    /\ obs' = NoObs

\* the pending request, last in the log, has settled
Settled(cs, kind, code, val) == [cs EXCEPT ![Len(cs)] = Call(@.req, kind, code, val)]

\* codes of the errors a call of send() or enable() may throw before it
\* returns: 0 stands for an error without a code property, the TypeError of
\* a missing method or of an answer that has no then()
ThrowCodes == {0}

\* a synchronous entry point or the environment ran: the records of an
\* operation that has finished are dropped, those of one in flight are kept
Interleave ==
    IF pc = "idle"
    THEN /\ pc' = "idle"
         /\ op' = "none"
         /\ entry' = "-"
         /\ calls' = <<>>
         /\ result' = NoResult
    ELSE UNCHANGED opVars

(***************************************************************************)
(* Event bridge: the bound handlers (constructor, lines 31-34)             *)
(***************************************************************************)
\* the function reference held in the field that activate() passes to on()
\* and deactivate() passes to removeListener()
BoundHandler(event) ==
    CASE event = "chainChanged" -> "handleChainChanged"
      [] event = "accountsChanged" -> "handleAccountsChanged"
      [] event = "close" -> "handleClose"
      [] event = "networkChanged" -> "handleNetworkChanged"

Registration(event, fn) == [event |-> event, fn |-> fn]

\* activate() without lines 62-67
Subscribe_none(bag) == bag

\* provider.on(event, fn) for the four events
Subscribe(bag) ==
    bag (+) SetToBag({Registration(e, BoundHandler(e)) : e \in Events})

(***************************************************************************)
(* activate(), lines 57-93                                                 *)
(***************************************************************************)
\* line 80 never recognising a rejection
IsUserRejection_never(code) == FALSE

\* (error as any).code === 4001
IsUserRejection(code) == code = UserRejectedCode

\* line 89 without the "sendReturn &&" guard
EnableAccount_noGuard(sendReturn) == FirstOf(parseSendReturn(sendReturn))

\* sendReturn => sendReturn && parseSendReturn(sendReturn)[0]
EnableAccount(sendReturn) ==
    IF ~Truthy(sendReturn) THEN sendReturn ELSE FirstOf(parseSendReturn(sendReturn))

\* line 77 taking the last account
RequestedAccount_last(sendReturn) == FirstOf_last(parseSendReturn(sendReturn))

\* sendReturn => parseSendReturn(sendReturn)[0]
RequestedAccount(sendReturn) == FirstOf(parseSendReturn(sendReturn))

\* line 87 always falling back
NeedsEnable_always(account) == TRUE

\* if (!account)
NeedsEnable(account) == ~Truthy(account)

\* { provider: window.QuasarChain, ...(account ? { account } : {}) }
ActivateUpdate(provider, account) ==
    Returned("activate", provider, IF Truthy(account) THEN account ELSE Absent)

\* lines 87-90: enable() is called outside any try block
ActivateEnable(cs) ==
    IF slot = None
    THEN Finish(Propagated("activate", 0), Append(cs, Attempt("enable", "threw", 0)))
    ELSE \/ \E c \in ThrowCodes :
              Finish(Propagated("activate", c), Append(cs, Attempt("enable", "threw", c)))
         \/ Suspend("activate_enable", Append(cs, Attempt("enable", "pending", 0)))

\* lines 86-92 once style 1 has yielded account (Undef when it failed softly)
ActivateAfterRequest(account, cs) ==
    IF NeedsEnable(account)
    THEN ActivateEnable(cs)
    ELSE Finish(ActivateUpdate(slot, account), cs)

\* lines 79-84
ActivateCatch(code, cs) ==
    IF IsUserRejection(code)
    THEN Finish(Raised("activate", "UserRejectedRequestError", 0), cs)
    ELSE ActivateAfterRequest(Undef, cs)

Activate ==
    /\ Start("activate")
    /\ UNCHANGED slot
    /\ IF slot = None
       THEN /\ Finish(Raised("activate", "NoBscProviderError", 0), <<>>)
            /\ UNCHANGED <<listeners, autoRefresh>>
       ELSE /\ HasOn(slot) =>
                 \A e \in Events :
                     CopiesIn(Registration(e, BoundHandler(e)), listeners[slot]) < MaxReg
            /\ listeners' = IF HasOn(slot)
                            THEN [listeners EXCEPT ![slot] = Subscribe(@)]
                            ELSE listeners
            /\ autoRefresh' = IF IsMetaMask(slot)
                              THEN [autoRefresh EXCEPT ![slot] = FALSE]
                              ELSE autoRefresh
            /\ \/ \E c \in ThrowCodes :
                      ActivateCatch(c, <<Attempt("send(eth_requestAccounts)", "threw", c)>>)
               \/ Suspend("activate_request",
                          <<Attempt("send(eth_requestAccounts)", "pending", 0)>>)

\* a step of the operation in flight: the promise it awaits settles
Resume(at) ==
    /\ pc = at
    /\ obs' = NoObs
    /\ UNCHANGED <<slot, listeners, autoRefresh, op, entry>>

\* the promise of send('eth_requestAccounts') settles (lines 76-84)
ActivateRequestSettles ==
    /\ Resume("activate_request")
    /\ \/ \E c \in ErrorCodes : ActivateCatch(c, Settled(calls, "rejected", c, Absent))
       \/ \E v \in AccountResponses :
              LET account == RequestedAccount(v)
                  cs == Settled(calls, "resolved", 0, v)
              IN  IF account = JsThrow
                  THEN ActivateCatch(0, cs)
                  ELSE ActivateAfterRequest(account, cs)

\* the promise of enable() settles (line 89)
ActivateEnableSettles ==
    /\ Resume("activate_enable")
    /\ \/ \E c \in ErrorCodes :
              Finish(Propagated("activate", c), Settled(calls, "rejected", c, Absent))
       \/ \E v \in AccountResponses :
              LET account == EnableAccount(v)
                  cs == Settled(calls, "resolved", 0, v)
              IN  IF account = JsThrow
                  THEN Finish(Propagated("activate", 0), cs)
                  ELSE Finish(ActivateUpdate(slot, account), cs)

(***************************************************************************)
(* getProvider(), lines 95-97                                              *)
(***************************************************************************)
GetProvider ==
    /\ Start("getProvider")
    /\ Finish(Returned("getProvider", slot, Absent), <<>>)
    /\ UNCHANGED <<slot, listeners, autoRefresh>>

(***************************************************************************)
(* getChainId(), lines 99-140                                              *)
(***************************************************************************)
\* lines 111, 119, 127 always falling back
NeedsFallback_always(v) == TRUE

\* if (!chainId), if (!account)
NeedsFallback(v) == ~Truthy(v)

\* a || b || c || d
StaticChainId(props) ==
    IF Truthy(props[1]) THEN props[1]
    ELSE IF Truthy(props[2]) THEN props[2]
    ELSE IF Truthy(props[3]) THEN props[3]
    ELSE props[4]

\* the four static properties, in the order the expression reads them
PropNames == <<"chainId", "netVersion", "networkVersion", "_chainId">>

\* || evaluates left to right and stops at the first truthy operand: the
\* number of properties the expression reads
ReadCount(props) ==
    IF Truthy(props[1]) THEN 1
    ELSE IF Truthy(props[2]) THEN 2
    ELSE IF Truthy(props[3]) THEN 3
    ELSE 4

\* the property reads the expression performs, with the values read
PropReads(props) ==
    [i \in 1 .. ReadCount(props) |-> Call(PropNames[i], "read", 0, props[i])]

\* what the scan may read and yield, over every value of the four properties
StaticResults ==
    {[reads |-> PropReads(props), chainId |-> StaticChainId(props)] :
        props \in [1 .. 4 -> PropVals]}

\* lines 127-139: vendor cache, else the static properties chainId,
\* netVersion, networkVersion, _chainId; the values are read from the
\* provider when the step runs. A provider without cachedResults gives the
\* same TypeError as one whose cachedResults.net_version is undefined.
ChainStatic(cs) ==
    IF slot = None
    THEN Finish(Propagated("getChainId", 0), cs)
    ELSE IF IsDapper(slot)
         THEN \E cached \in ChainResponses :
                  LET chainId == parseSendReturn(cached)
                      cs4 == Append(cs, Call("cachedResults.net_version", "read", 0, cached))
                  IN  IF chainId = JsThrow
                      THEN Finish(Propagated("getChainId", 0), cs4)
                      ELSE Finish(Returned("getChainId", "absent", chainId), cs4)
         ELSE \E scan \in StaticResults :
                  Finish(Returned("getChainId", "absent", scan.chainId),
                         cs \o scan.reads)

\* lines 119-125: send({method: 'net_version'}), not awaited. When the call
\* answers with a promise, chainId is that promise and getChainId() settles
\* as that promise does.
ChainNetVersionV2(cs) ==
    IF slot = None
    THEN ChainStatic(Append(cs, Attempt("send({net_version})", "threw", 0)))
    ELSE \/ \E c \in ThrowCodes :
              ChainStatic(Append(cs, Attempt("send({net_version})", "threw", c)))
         \/ \E v \in ChainResponses :
              LET chainId == parseSendReturn(v)
                  cs3 == Append(cs, Call("send({net_version})", "returned", 0, v))
              IN  IF chainId = JsThrow \/ NeedsFallback(chainId)
                  THEN ChainStatic(cs3)
                  ELSE Finish(Returned("getChainId", "absent", chainId), cs3)
         \/ Suspend("chain_returned",
                    Append(cs, Call("send({net_version})", "pending", 0, JsPromise)))

\* line 113 without the await: the chain goes on while the request is pending
ChainNetVersion_noAwait(cs) ==
    ChainNetVersionV2(Append(cs, Attempt("send(net_version)", "pending", 0)))

\* lines 111-117: send('net_version')
ChainNetVersion(cs) ==
    IF slot = None
    THEN ChainNetVersionV2(Append(cs, Attempt("send(net_version)", "threw", 0)))
    ELSE \/ \E c \in ThrowCodes :
              ChainNetVersionV2(Append(cs, Attempt("send(net_version)", "threw", c)))
         \/ Suspend("chain_netVersion", Append(cs, Attempt("send(net_version)", "pending", 0)))

\* lines 100-109: send('eth_chainId')
GetChainId ==
    /\ Start("getChainId")
    /\ UNCHANGED <<slot, listeners, autoRefresh>>
    /\ IF slot = None
       THEN Finish(Raised("getChainId", "NoBscProviderError", 0), <<>>)
       ELSE \/ \E c \in ThrowCodes :
                   ChainNetVersion(<<Attempt("send(eth_chainId)", "threw", c)>>)
            \/ Suspend("chain_chainId", <<Attempt("send(eth_chainId)", "pending", 0)>>)

\* the promise of send('eth_chainId') settles
ChainIdSettles ==
    /\ Resume("chain_chainId")
    /\ \/ \E c \in ErrorCodes : ChainNetVersion(Settled(calls, "rejected", c, Absent))
       \/ \E v \in ChainResponses :
              LET chainId == parseSendReturn(v)
                  cs == Settled(calls, "resolved", 0, v)
              IN  IF chainId = JsThrow \/ NeedsFallback(chainId)
                  THEN ChainNetVersion(cs)
                  ELSE Finish(Returned("getChainId", "absent", chainId), cs)

\* the promise of send('net_version') settles
NetVersionSettles ==
    /\ Resume("chain_netVersion")
    /\ \/ \E c \in ErrorCodes : ChainNetVersionV2(Settled(calls, "rejected", c, Absent))
       \/ \E v \in ChainResponses :
              LET chainId == parseSendReturn(v)
                  cs == Settled(calls, "resolved", 0, v)
              IN  IF chainId = JsThrow \/ NeedsFallback(chainId)
                  THEN ChainNetVersionV2(cs)
                  ELSE Finish(Returned("getChainId", "absent", chainId), cs)

\* the promise that send({method: 'net_version'}) answered with, and that
\* getChainId() returned, settles
ReturnedPromiseSettles ==
    /\ Resume("chain_returned")
    /\ \/ \E c \in ErrorCodes :
              Finish(Propagated("getChainId", c), Settled(calls, "rejected", c, JsPromise))
       \/ \E v \in ChainResponses :
              Finish(Returned("getChainId", "absent", v), Settled(calls, "resolved", 0, v))

(***************************************************************************)
(* getAccount(), lines 142-169                                             *)
(***************************************************************************)
\* line 165: send({method: 'eth_accounts'}) outside any try block
AccountV2(cs) ==
    IF slot = None
    THEN Finish(Propagated("getAccount", 0),
                Append(cs, Attempt("send({eth_accounts})", "threw", 0)))
    ELSE \/ \E c \in ThrowCodes :
              Finish(Propagated("getAccount", c),
                     Append(cs, Attempt("send({eth_accounts})", "threw", c)))
         \/ \E v \in AccountResponses \cup {JsPromise} :
              LET account == FirstOf(parseSendReturn(v))
                  cs3 == Append(cs, Call("send({eth_accounts})", "returned", 0, v))
              IN  IF account = JsThrow
                  THEN Finish(Propagated("getAccount", 0), cs3)
                  ELSE Finish(Returned("getAccount", "absent", account), cs3)

\* line 158 without the await: the chain goes on while enable() is pending
AccountEnable_noAwait(cs) == AccountV2(Append(cs, Attempt("enable", "pending", 0)))

\* lines 156-162: enable() inside a try block
AccountEnable(cs) ==
    IF slot = None
    THEN AccountV2(Append(cs, Attempt("enable", "threw", 0)))
    ELSE \/ \E c \in ThrowCodes : AccountV2(Append(cs, Attempt("enable", "threw", c)))
         \/ Suspend("account_enable", Append(cs, Attempt("enable", "pending", 0)))

\* lines 143-154: send('eth_accounts')
GetAccount ==
    /\ Start("getAccount")
    /\ UNCHANGED <<slot, listeners, autoRefresh>>
    /\ IF slot = None
       THEN Finish(Raised("getAccount", "NoBscProviderError", 0), <<>>)
       ELSE \/ \E c \in ThrowCodes :
                   AccountEnable(<<Attempt("send(eth_accounts)", "threw", c)>>)
            \/ Suspend("account_accounts", <<Attempt("send(eth_accounts)", "pending", 0)>>)

\* the promise of send('eth_accounts') settles
AccountsSettles ==
    /\ Resume("account_accounts")
    /\ \/ \E c \in ErrorCodes : AccountEnable(Settled(calls, "rejected", c, Absent))
       \/ \E v \in AccountResponses :
              LET account == FirstOf(parseSendReturn(v))
                  cs == Settled(calls, "resolved", 0, v)
              IN  IF account = JsThrow \/ NeedsFallback(account)
                  THEN AccountEnable(cs)
                  ELSE Finish(Returned("getAccount", "absent", account), cs)

\* the promise of enable() settles
AccountEnableSettles ==
    /\ Resume("account_enable")
    /\ \/ \E c \in ErrorCodes : AccountV2(Settled(calls, "rejected", c, Absent))
       \/ \E v \in AccountResponses :
              LET account == FirstOf(parseSendReturn(v))
                  cs == Settled(calls, "resolved", 0, v)
              IN  IF account = JsThrow \/ NeedsFallback(account)
                  THEN AccountV2(cs)
                  ELSE Finish(Returned("getAccount", "absent", account), cs)

(***************************************************************************)
(* isAuthorized(), lines 180-196                                           *)
(***************************************************************************)
\* line 182 raising like the other operations
AuthorizedWithoutProvider_raises == Raised("isAuthorized", "NoBscProviderError", 0)

\* if (!window.QuasarChain) return false
AuthorizedWithoutProvider == Returned("isAuthorized", "absent", Bool(FALSE))

\* lines 193-195
AuthorizedCatch == Returned("isAuthorized", "absent", Bool(FALSE))

IsAuthorized ==
    /\ Start("isAuthorized")
    /\ UNCHANGED <<slot, listeners, autoRefresh>>
    /\ IF slot = None
       THEN Finish(AuthorizedWithoutProvider, <<>>)
       ELSE \/ \E c \in ThrowCodes :
                   Finish(AuthorizedCatch, <<Attempt("send(eth_accounts)", "threw", c)>>)
            \/ Suspend("authorized_accounts", <<Attempt("send(eth_accounts)", "pending", 0)>>)

\* the promise of send('eth_accounts') settles (lines 186-195)
AuthorizedSettles ==
    /\ Resume("authorized_accounts")
    /\ \/ \E c \in ErrorCodes : Finish(AuthorizedCatch, Settled(calls, "rejected", c, Absent))
       \/ \E v \in AccountResponses :
              LET authorized == NonEmptyLength(parseSendReturn(v))
                  cs == Settled(calls, "resolved", 0, v)
              IN  IF authorized = JsThrow
                  THEN Finish(AuthorizedCatch, cs)
                  ELSE Finish(Returned("isAuthorized", "absent", authorized), cs)

(***************************************************************************)
(* deactivate(), lines 171-178                                             *)
(***************************************************************************)
EventOrder == <<"chainChanged", "accountsChanged", "close", "networkChanged">>

\* line 172 probing the provider only
CanRemove_presentOnly(s) == s # None

\* window.QuasarChain && window.QuasarChain.removeListener
CanRemove(s) == s # None /\ HasRemoveListener(s)

\* provider.removeListener(event, fn) for the four events: each call takes
\* one registration of exactly that function away, if there is one
Unsubscribe(bag) ==
    bag (-) SetToBag({Registration(e, BoundHandler(e)) : e \in Events})

\* deactivate() also telling the framework that the connection ended
DeactivateNotes_emits == << <<Deactivation>> >>

\* lines 171-178 call neither emitUpdate nor emitDeactivate
DeactivateNotes == <<>>

Deactivate ==
    /\ Interleave
    /\ UNCHANGED <<slot, autoRefresh>>
    /\ IF CanRemove(slot)
       THEN IF slot # None /\ HasRemoveListener(slot)
            THEN /\ listeners' = [listeners EXCEPT ![slot] = Unsubscribe(@)]
                 /\ obs' = [NoObs EXCEPT
                              !.name = "deactivate",
                              !.emitter = slot,
                              !.notes = DeactivateNotes,
                              !.removed = [i \in 1 .. 4 |->
                                  Registration(EventOrder[i], BoundHandler(EventOrder[i]))]]
            \* calling a method the provider does not have throws a TypeError
            ELSE /\ UNCHANGED listeners
                 /\ obs' = [NoObs EXCEPT !.name = "deactivate",
                                         !.notes = DeactivateNotes, !.raised = TRUE]
       ELSE /\ UNCHANGED listeners
            /\ obs' = [NoObs EXCEPT !.name = "deactivate", !.notes = DeactivateNotes]

(***************************************************************************)
(* The event handlers, lines 37-55: the notifications one invocation emits *)
(***************************************************************************)
handleChainChanged(chainId) == <<Update(Str(chainId), Absent, slot)>>

\* line 45 taking the last account
handleAccountsChanged_last(accounts) ==
    IF Len(accounts) = 0
    THEN <<Deactivation>>
    ELSE <<Update(Absent, Str(accounts[Len(accounts)]), "absent")>>

handleAccountsChanged(accounts) ==
    IF Len(accounts) = 0
    THEN <<Deactivation>>
    ELSE <<Update(Absent, Str(accounts[1]), "absent")>>

handleClose == <<Deactivation>>

handleNetworkChanged(networkId) == <<Update(Str(networkId), Absent, slot)>>

Invoke(fn, id, accounts) ==
    CASE fn = "handleChainChanged" -> handleChainChanged(id)
      [] fn = "handleAccountsChanged" -> handleAccountsChanged(accounts)
      [] fn = "handleClose" -> handleClose
      [] fn = "handleNetworkChanged" -> handleNetworkChanged(id)

(***************************************************************************)
(* The environment                                                         *)
(***************************************************************************)
\* the wallet extension sets, replaces or removes window.QuasarChain
SetProvider ==
    /\ \E s \in Slots \ {slot} : slot' = s
    /\ obs' = NoObs
    /\ Interleave
    /\ UNCHANGED <<listeners, autoRefresh>>

\* provider p emits an event: every registration of the event is invoked
\* once, in the order of registration (all are the same bound handler)
Dispatch(p, event, id, accounts) ==
    LET regs == {r \in BagToSet(listeners[p]) : r.event = event}
        r == CHOOSE x \in regs : TRUE
        n == CopiesIn(r, listeners[p])
    IN  /\ regs # {}
        /\ obs' = [NoObs EXCEPT
                     !.name = event, !.emitter = p, !.id = id, !.accounts = accounts,
                     !.notes = [i \in 1 .. n |-> Invoke(r.fn, id, accounts)]]
        /\ Interleave
        /\ UNCHANGED <<slot, listeners, autoRefresh>>

ChainChanged == \E p \in ProviderIds, id \in ChainIds : Dispatch(p, "chainChanged", id, <<>>)

AccountsChanged ==
    \E p \in ProviderIds, accounts \in AccountLists :
        Dispatch(p, "accountsChanged", "", accounts)

Close == \E p \in ProviderIds : Dispatch(p, "close", "", <<>>)

NetworkChanged ==
    \E p \in ProviderIds, id \in ChainIds : Dispatch(p, "networkChanged", id, <<>>)

Next ==
    \/ Activate
    \/ ActivateRequestSettles
    \/ ActivateEnableSettles
    \/ GetProvider
    \/ GetChainId
    \/ ChainIdSettles
    \/ NetVersionSettles
    \/ ReturnedPromiseSettles
    \/ GetAccount
    \/ AccountsSettles
    \/ AccountEnableSettles
    \/ IsAuthorized
    \/ AuthorizedSettles
    \/ Deactivate
    \/ SetProvider
    \/ ChainChanged
    \/ AccountsChanged
    \/ Close
    \/ NetworkChanged

Spec == Init /\ [][Next]_vars

(***************************************************************************)
(* Properties                                                              *)
(***************************************************************************)
\* the request did not complete: it threw, or its promise was rejected
Failed(c) == c.kind \in {"threw", "rejected"}
\* the payload of a response, bare or inside its wrapper
Unwrapped(r) == [r EXCEPT !.d = 0]
IsNonEmptyList(r) == r.t = "list" /\ r.l # <<>>
IsNonEmptyString(r) == r.t = "str" /\ r.s # ""
Operating(name) == op = name /\ pc = "idle"

\* C1: an operation called while the provider slot is empty makes no request
\* to the provider; activate(), getChainId() and getAccount() fail with
\* NoBscProviderError and isAuthorized() returns false.
C1_ProviderAbsent ==
    entry = "absent" =>
        /\ pc = "idle"
        /\ calls = <<>>
        /\ op \in {"activate", "getChainId", "getAccount"} =>
               result = Raised(op, "NoBscProviderError", 0)
        /\ op = "isAuthorized" => result = Returned(op, "absent", Bool(FALSE))

\* C1: isAuthorized() was called on an empty slot that held a provider
\* before (handlers are still registered on it)
C1_Witness ==
    /\ entry = "absent"
    /\ op = "isAuthorized"
    /\ \E p \in ProviderIds : listeners[p] # EmptyBag

\* C2: when send('eth_requestAccounts') fails with code 4001, activate()
\* fails with UserRejectedRequestError and enable() is not called.
C2_RejectionShortCircuit ==
    (op = "activate" /\ calls # <<>> /\ Failed(calls[1])
        /\ calls[1].code = UserRejectedCode) =>
        /\ pc = "idle"
        /\ result = Raised("activate", "UserRejectedRequestError", 0)
        /\ \A i \in DOMAIN calls : calls[i].req # "enable"

C2_Witness ==
    /\ Operating("activate")
    /\ result.err = "UserRejectedRequestError"
    /\ calls[1].kind = "rejected"

\* C3 as stated: the only failures of activate() are NoBscProviderError and
\* UserRejectedRequestError.
C3_OnlyTwoFailures ==
    (Operating("activate") /\ result.status = "error") =>
        result.err \in {"NoBscProviderError", "UserRejectedRequestError"}

\* a response of enable() that carries no account: undefined or an empty list
CarriesNoAccount(r) == r = Undef \/ (r.t = "list" /\ r.l = <<>>)

\* C3 as amended: activate() fails with NoBscProviderError (slot empty at the
\* call), with UserRejectedRequestError (style 1 failed with code 4001), or
\* with the failure of the enable() step itself, propagated unclassified
\* (enable() missing or throwing, its promise rejected with any code, its
\* response a wrapper without a result, or the slot emptied before the
\* call); and when enable() resolves to a response that carries no account,
\* activate() returns successfully with the account left out.
C3_EnableFailurePropagates ==
    Operating("activate") =>
        /\ result.status = "error" =>
            \/ result.err = "NoBscProviderError" /\ entry = "absent"
            \/ /\ result.err = "UserRejectedRequestError"
               /\ Len(calls) = 1
               /\ Failed(calls[1])
               /\ calls[1].code = UserRejectedCode
            \/ /\ result.err = "Unclassified"
               /\ Len(calls) = 2
               /\ calls[2].req = "enable"
               /\ \/ Failed(calls[2])
                  \/ calls[2].kind = "resolved" /\ calls[2].val = Wrapped(Undef, 1)
        /\ (Len(calls) = 2 /\ calls[2].kind = "resolved" /\ CarriesNoAccount(calls[2].val)) =>
            /\ result.status = "ok"
            /\ result.val = Absent

\* C3: enable() resolved to undefined and activate() returned without account
C3_Witness ==
    /\ Operating("activate")
    /\ Len(calls) = 2
    /\ calls[2].kind = "resolved"
    /\ calls[2].val = Undef
    /\ result.status = "ok"
    /\ result.val = Absent

\* C4: with the provider present, when every request of the chain fails,
\* getAccount(), getChainId() and isAuthorized() raise nothing: they return
\* an empty result, isAuthorized() false.
C4_ChainFailureIsSoft ==
    (/\ pc = "idle"
     /\ op \in {"getAccount", "getChainId", "isAuthorized"}
     /\ entry = "present"
     /\ slot # None
     /\ \A i \in DOMAIN calls : calls[i].kind # "read" => Failed(calls[i])) =>
        /\ result.status = "ok"
        /\ op = "isAuthorized" => result.val = Bool(FALSE)
        /\ op = "getAccount" => result.val = Undef

\* C5: in getChainId(), when send('eth_chainId') fails and send('net_version')
\* resolves to a non-empty value, bare or wrapped, that value is the result
\* and neither the object-style send nor the static lookup is performed.
C5_NetVersionWins ==
    (/\ op = "getChainId"
     /\ Len(calls) >= 2
     /\ Failed(calls[1])
     /\ calls[2].kind = "resolved"
     /\ IsNonEmptyString(calls[2].val)) =>
        /\ pc = "idle"
        /\ calls[2].req = "send(net_version)"
        /\ Len(calls) = 2
        /\ result = Returned("getChainId", "absent", Unwrapped(calls[2].val))

C5_Witness ==
    /\ Operating("getChainId")
    /\ Len(calls) = 2
    /\ calls[1].kind = "rejected"
    /\ calls[2].val = Wrapped(Str("56"), 1)
    /\ result.val = Str("56")

\* C6: a rejection with code 4001 of any request of activate(), that of
\* send('eth_requestAccounts') or that of enable(), makes activate() fail
\* with UserRejectedRequestError.
C6_AnyRejectionIsUserRejected ==
    (/\ Operating("activate")
     /\ \E i \in DOMAIN calls :
            calls[i].kind = "rejected" /\ calls[i].code = UserRejectedCode) =>
        result = Raised("activate", "UserRejectedRequestError", 0)

\* C7: each invocation of the accountsChanged handler emits exactly one
\* notification: a deactivation for the empty list, else an update that
\* carries the first account and nothing else.
C7_AccountsChanged ==
    obs.name = "accountsChanged" =>
        /\ Len(obs.notes) >= 1
        /\ \A i \in DOMAIN obs.notes :
               obs.notes[i] =
                   IF obs.accounts = <<>>
                   THEN <<Deactivation>>
                   ELSE <<Update(Absent, Str(obs.accounts[1]), "absent")>>

C7_Witness == obs.name = "accountsChanged" /\ Len(obs.accounts) = 2

\* C8: deactivate() raises in no state, and calls removeListener only on a
\* provider that is present and has removeListener.
C8_DeactivateSafe ==
    obs.name = "deactivate" =>
        /\ ~obs.raised
        /\ obs.removed # <<>> => slot # None /\ HasRemoveListener(slot)

\* C8: deactivate() ran on a provider with registered handlers and no
\* removeListener
C8_Witness ==
    /\ obs.name = "deactivate"
    /\ slot # None
    /\ ~HasRemoveListener(slot)
    /\ listeners[slot] # EmptyBag

\* C9: every successful activate() returns an update whose provider field
\* holds a provider.
C9_ProviderPopulated ==
    (Operating("activate") /\ result.status = "ok") => result.provider \in ProviderIds

\* C10: when send('eth_requestAccounts') resolves to a non-empty list,
\* activate() returns the slot's provider and the first account without
\* calling enable(); when send('eth_accounts') resolves to a non-empty list,
\* getAccount() returns its first account without a further request; and
\* isAuthorized() on a present provider returns true exactly when
\* send('eth_accounts') resolves to a non-empty list.
C10_HappyPath ==
    /\ (op = "activate" /\ calls # <<>> /\ calls[1].kind = "resolved"
            /\ IsNonEmptyList(calls[1].val)) =>
           /\ pc = "idle"
           /\ Len(calls) = 1
           /\ result = Returned("activate", slot, Str(calls[1].val.l[1]))
    /\ (op = "getAccount" /\ calls # <<>> /\ calls[1].kind = "resolved"
            /\ IsNonEmptyList(calls[1].val)) =>
           /\ pc = "idle"
           /\ Len(calls) = 1
           /\ result = Returned("getAccount", "absent", Str(calls[1].val.l[1]))
    /\ (Operating("isAuthorized") /\ entry = "present") =>
           (result.val = Bool(TRUE)
               <=> (calls[1].kind = "resolved" /\ IsNonEmptyList(calls[1].val)))

C10_Witness ==
    /\ Operating("activate")
    /\ Len(calls) = 1
    /\ calls[1].val = List(<<"0xA", "0xB">>)
    /\ result.val = Str("0xA")
    /\ result.provider \in ProviderIds

\* C11: parseSendReturn never fails: a wrapper that owns a result property
\* yields that property's value, and any other input (a bare value, an
\* array, an absent response) is returned unchanged. Stated of every
\* response a provider gives to a request.
C11_NormalizerTotal ==
    \A i \in DOMAIN calls :
        calls[i].kind \in {"resolved", "returned"} =>
            LET sendReturn == calls[i].val
            IN  /\ parseSendReturn(sendReturn) # JsThrow
                /\ sendReturn.d > 0 =>
                       parseSendReturn(sendReturn) = [sendReturn EXCEPT !.d = @ - 1]
                /\ sendReturn.d = 0 => parseSendReturn(sendReturn) = sendReturn

\* the operations that try several calling styles
Chained == {"activate", "getAccount", "getChainId"}
\* the request completed without error
Completed(c) == c.kind \in {"resolved", "returned"}
\* the response carries what the operation asked for: a non-empty account
\* list, or a non-empty chain id
YieldsValue(name, r) ==
    IF name = "getChainId"
    THEN IsNonEmptyString(Unwrapped(r))
    ELSE IsNonEmptyList(Unwrapped(r))

\* C12 as stated: once a style's attempt completes without error, whatever
\* value it resolved to, no later style is invoked.
C12_FirstCompletionWins ==
    op \in Chained =>
        \A i \in DOMAIN calls : Completed(calls[i]) => i = Len(calls)

\* C12, amended: once a style's attempt completes without error and yields a
\* non-empty value, the operation ends and no later style is invoked.
C12_FirstValueWins ==
    op \in Chained =>
        \A i \in DOMAIN calls :
            (Completed(calls[i]) /\ YieldsValue(op, calls[i].val)) =>
                /\ i = Len(calls)
                /\ pc = "idle"
                /\ result.status = "ok"

\* C12: send('eth_accounts') resolved to an empty list, getAccount() went on
\* to enable(), whose account list ended the chain
C12_Witness ==
    /\ Operating("getAccount")
    /\ Len(calls) = 2
    /\ calls[1].kind = "resolved"
    /\ calls[1].val = List(<<>>)
    /\ calls[2].req = "enable"
    /\ YieldsValue(op, calls[2].val)
    /\ result.status = "ok"

\* C13: after activate() and deactivate() calls that end with deactivate(),
\* on a present provider that has both on and removeListener, no handler of
\* the instance remains registered for any of the four events, and every
\* function passed to removeListener is the one that was passed to on for
\* the same event.
C13_DeactivateClears ==
    (obs.name = "deactivate" /\ slot # None
        /\ HasOn(slot) /\ HasRemoveListener(slot)) =>
        /\ \A event \in Events :
               CopiesIn(Registration(event, BoundHandler(event)), listeners[slot]) = 0
        /\ Len(obs.removed) = 4
        /\ \A i \in DOMAIN obs.removed :
               obs.removed[i].fn = BoundHandler(obs.removed[i].event)

\* C14: getAccount(), getChainId() and isAuthorized() never fail with
\* UserRejectedRequestError; a request of theirs that is rejected with code
\* 4001 is absorbed: the chain goes on to its next style, or the operation
\* ends without failing (isAuthorized() with false).
C14_RejectionIsSoftElsewhere ==
    op \in {"getAccount", "getChainId", "isAuthorized"} =>
        /\ result.err # "UserRejectedRequestError"
        /\ \A i \in DOMAIN calls :
               (calls[i].kind = "rejected" /\ calls[i].code = UserRejectedCode) =>
                   \/ i < Len(calls)
                   \/ /\ pc = "idle"
                      /\ result.status = "ok"
                      /\ op = "isAuthorized" => result.val = Bool(FALSE)

\* the requests an operation may make, in priority order
StyleOrder(name) ==
    CASE name = "activate" -> <<"send(eth_requestAccounts)", "enable">>
      [] name = "getAccount" -> <<"send(eth_accounts)", "enable", "send({eth_accounts})">>
      [] name = "getChainId" ->
             <<"send(eth_chainId)", "send(net_version)", "send({net_version})">>
      [] name = "isAuthorized" -> <<"send(eth_accounts)">>
      [] OTHER -> <<>>
IsRequest(c) == c.kind # "read"
\* the provider requests of the operation, without the property reads
Requests == SelectSeq(calls, IsRequest)

IsRead(c) == c.kind = "read"
\* the property reads of the static fallback
Reads == SelectSeq(calls, IsRead)
\* none of the three request styles of getChainId() yielded a chain id, the
\* third one having answered synchronously
StylesYieldedNone ==
    /\ Len(Requests) = 3
    /\ Requests[3].kind \in {"threw", "returned"}
    /\ \A i \in 1 .. 3 :
           ~(Completed(Requests[i]) /\ YieldsValue("getChainId", Requests[i].val))

\* C16: when none of styles 1-3 yields a chain id, getChainId() on a provider
\* that carries isDapper returns the normalized cachedResults.net_version
\* without reading the static properties; on any other provider it returns
\* the first non-empty of chainId, netVersion, networkVersion, _chainId, read
\* in that order, and undefined when all four are empty.
C16_StaticFallback ==
    (Operating("getChainId") /\ slot # None /\ StylesYieldedNone) =>
        IF IsDapper(slot)
        THEN /\ Len(Reads) = 1
             /\ Reads[1].req = "cachedResults.net_version"
             /\ result = Returned("getChainId", "absent", Unwrapped(Reads[1].val))
        ELSE LET n == Len(Reads)
             IN  /\ n \in 1 .. 4
                 /\ \A i \in 1 .. n : Reads[i].req = PropNames[i]
                 /\ \A i \in 1 .. n - 1 : ~IsNonEmptyString(Reads[i].val)
                 /\ IF IsNonEmptyString(Reads[n].val)
                    THEN result = Returned("getChainId", "absent", Reads[n].val)
                    ELSE n = 4 /\ result = Returned("getChainId", "absent", Undef)

\* the request has not settled: its promise is pending, or the promise it
\* answered with was taken as the value and never awaited
Outstanding(c) == c.kind = "pending" \/ (c.kind = "returned" /\ c.val = JsPromise)

\* C17: an operation never has more than one provider request outstanding.
C17_OneOutstanding ==
    Cardinality({i \in DOMAIN calls : Outstanding(calls[i])}) <= 1

\* C17: getAccount() awaits enable() after send('eth_accounts') has settled
C17_Witness ==
    /\ op = "getAccount"
    /\ pc = "account_enable"
    /\ Len(calls) = 2
    /\ calls[1].kind = "resolved"
    /\ Outstanding(calls[2])

\* C18: while the instance is subscribed, every chainChanged(id) and every
\* networkChanged(id) event of the provider produces exactly one update,
\* carrying id as the chain id and the slot's value at the time of the
\* event as the provider, and no deactivation; every close event produces
\* exactly one deactivation and no update.
C18_OneNotificationPerEvent ==
    /\ obs.name \in {"chainChanged", "networkChanged"} =>
           obs.notes = << <<Update(Str(obs.id), Absent, slot)>> >>
    /\ obs.name = "close" => obs.notes = << <<Deactivation>> >>

\* how often the instance's handler of the event is registered on provider p
Registered(bag, event) == CopiesIn(Registration(event, BoundHandler(event)), bag)

\* C19: activate() on a provider that has on registers the four handlers in
\* the step that makes its first authorization request, whether or not it
\* then fails, and a registration is only ever taken back by deactivate():
\* after a failed activate() the handlers stay registered, and the
\* provider's events keep reaching them, until deactivate() is called.
C19_NoRollback ==
    [][/\ (pc = "idle" /\ op' = "activate" /\ entry' = "present" /\ HasOn(slot)) =>
              \A event \in Events :
                  Registered(listeners'[slot], event) = Registered(listeners[slot], event) + 1
       /\ (\E p \in ProviderIds, event \in Events :
               Registered(listeners'[p], event) < Registered(listeners[p], event)) =>
              obs'.name = "deactivate"]_vars

\* C19: activate() has failed with UserRejectedRequestError and the four
\* handlers are registered on the provider
C19_Witness ==
    /\ Operating("activate")
    /\ result = Raised("activate", "UserRejectedRequestError", 0)
    /\ slot # None
    /\ \A event \in Events : Registered(listeners[slot], event) = 1

\* C20: notifications come from the four event handlers only: activate(),
\* getProvider(), getChainId(), getAccount(), isAuthorized() and
\* deactivate() emit none; and deactivate(), getProvider() and the handlers
\* make no provider request: the only requests on record are those of the
\* operation in flight, in its own styles.
C20_Frame ==
    /\ obs.notes # <<>> => obs.name \in Events
    /\ op \in {"none", "getProvider"} => calls = <<>>
    /\ obs.name \in Events \cup {"deactivate"} =>
           /\ pc = "idle" => calls = <<>>
           /\ \A i \in DOMAIN Requests :
                  /\ i <= Len(StyleOrder(op))
                  /\ Requests[i].req = StyleOrder(op)[i]

\* C20: deactivate() ran while getAccount() was awaiting enable(): it called
\* removeListener for the four events, emitted nothing and left the
\* operation's two requests as they were
C20_Witness ==
    /\ obs.name = "deactivate"
    /\ Len(obs.removed) = 4
    /\ obs.notes = <<>>
    /\ pc = "account_enable"
    /\ Len(calls) = 2

====
